---- MODULE Spec2Model ----
(***************************************************************************)
(* Model of the custom vitest matchers toThrowRedirect / toThrowHttpError  *)
(* (src/src/lib/mocks/request.ts) and of the server hooks they are used on *)
(* (src/src/hooks.server.ts).                                              *)
(*                                                                         *)
(* JavaScript values are tagged records of one shape, so that a number is  *)
(* never equal to a string and `undefined` is a value of its own.          *)
(***************************************************************************)
EXTENDS Integers, Sequences, FiniteSets, TLC

VARIABLES
    call,        \* the latest matcher invocation: matcher, this.isNot, actual, expected
    completion,  \* how that invocation completed: a returned MatchResult or a throw
    params,      \* the {event, resolve} pair handed to a hook; resolve is a vi.fn() mock
    hook,        \* the hook invoked last
    promise,     \* the promise that hook invocation returned, once settled
    earlier      \* history: one earlier matcher invocation of the run and its completion

vars == <<call, completion, params, hook, promise, earlier>>

----------------------------------------------------------------------------
(* JavaScript values *)

Undefined == [t |-> "undefined", n |-> 0, s |-> ""]
Null == [t |-> "null", n |-> 0, s |-> ""]
Num(k) == [t |-> "number", n |-> k, s |-> ""]
Str(x) == [t |-> "string", n |-> 0, s |-> x]

\* ToBoolean, as applied by `&&` to its left operand.
Truthy(v) ==
    CASE v.t = "number" -> v.n # 0
      [] v.t = "string" -> v.s # ""
      [] OTHER -> FALSE

\* a != b : loose inequality, which converts a numeric string to its number.
LooseNotEquals(a, b) ==
    LET norm(v) == IF v = Str("302") THEN Num(302) ELSE v
    IN norm(a) # norm(b)

\* a !== b on primitives.
StrictNotEquals(a, b) == a # b

Nullish(v) == v.t \in {"undefined", "null"}

----------------------------------------------------------------------------
(* The values a matcher may receive as `actual` *)

NoBody == [isObject |-> FALSE, message |-> Undefined]
Body(m) == [isObject |-> TRUE, message |-> m]

\* A Redirect instance as thrown by redirect(status, location).
Redirect(status, location) ==
    [cls |-> "Redirect", prim |-> Undefined, status |-> Num(status),
     location |-> Str(location), body |-> NoBody]

\* An HttpError instance as thrown by error(status, message).
HttpError(status, message) ==
    [cls |-> "HttpError", prim |-> Undefined, status |-> Num(status),
     location |-> Undefined, body |-> Body(Str(message))]

\* A plain object literal with whatever fields it is given.
PlainObject(status, location, body) ==
    [cls |-> "Object", prim |-> Undefined, status |-> status,
     location |-> location, body |-> body]

\* A primitive (undefined, null, a number, a string).
Primitive(v) ==
    [cls |-> "Primitive", prim |-> v, status |-> Undefined,
     location |-> Undefined, body |-> NoBody]

RedirectStatuses == {302, 303}
RedirectLocations == {"/login", "/a"}
ErrorStatuses == {500, 404}
ErrorMessages == {"Server Error", "Not Found"}

Redirects == {Redirect(st, l) : st \in RedirectStatuses, l \in RedirectLocations}
HttpErrors == {HttpError(st, m) : st \in ErrorStatuses, m \in ErrorMessages}

Others ==
    {Primitive(Undefined), Primitive(Null), Primitive(Str("/login")),
     PlainObject(Num(302), Str("/login"), NoBody),
     PlainObject(Num(500), Undefined, Body(Str("Server Error")))}

Actuals == Redirects \cup HttpErrors \cup Others

----------------------------------------------------------------------------
(* The values a matcher may receive as `expected` *)

NoExpected == [t |-> "undefined", status |-> Undefined, location |-> Undefined,
               message |-> Undefined]
NullExpected == [t |-> "null", status |-> Undefined, location |-> Undefined,
                 message |-> Undefined]
ExpectedObject(status, location, message) ==
    [t |-> "object", status |-> status, location |-> location, message |-> message]

ExpectedStatuses ==
    {Undefined, Num(0), Num(302), Num(303), Num(500), Str("302")}
ExpectedLocations == {Undefined, Str(""), Str("/login"), Str("/b")}
ExpectedMessages == {Undefined, Str(""), Str("Server Error"), Str("Wrong")}

\* The missing argument, null, and objects with a status key, a location key or a
\* message key (the key the other matcher reads is an unsupported key for this one).
Expecteds ==
    {NoExpected, NullExpected}
    \cup {ExpectedObject(st, l, Undefined) : st \in ExpectedStatuses, l \in ExpectedLocations}
    \cup {ExpectedObject(st, Undefined, m) : st \in ExpectedStatuses, m \in ExpectedMessages}

\* expected.key : a plain member access of the expected object.
Member(expected, key) ==
    CASE key = "status" -> expected.status
      [] key = "location" -> expected.location
      [] key = "message" -> expected.message

\* expected?.key : undefined when expected is undefined or null.
OptionalChain(expected, key) ==
    IF Nullish(expected) THEN Undefined
    ELSE Member(expected, key)

----------------------------------------------------------------------------
(* Completions and MatchResults *)

Return(r) == [type |-> "return", value |-> r]
Throw(e) == [type |-> "throw", value |-> e]
NoCompletion == [type |-> "none", value |-> "none"]

\* { pass, message } : an object literal with these two keys only.
BaseResult(pass, message) ==
    [keys |-> {"pass", "message"}, pass |-> pass, message |-> message,
     actual |-> Undefined, expected |-> Undefined]

\* { pass: false, message, actual, expected }
MismatchResult(message, actual, expected) ==
    [keys |-> {"pass", "message", "actual", "expected"}, pass |-> FALSE,
     message |-> message, actual |-> actual, expected |-> expected]

----------------------------------------------------------------------------
(* The classification predicates of @sveltejs/kit *)

isRedirect(actual) == actual.cls = "Redirect"
isHttpError(actual) == actual.cls = "HttpError"

----------------------------------------------------------------------------
(* The matchers *)

RedirectMessage(isNot) ==
    "Expected a redirect to " \o (IF isNot THEN "not " ELSE "") \o "be thrown"

HttpErrorMessage(isNot) ==
    "Expected an HTTP error to " \o (IF isNot THEN "not " ELSE "") \o "be thrown"

\* toThrowRedirect with the field checks before the classification.
toThrowRedirect_fieldsFirst(isNot, actual, expected) ==
    IF Truthy(OptionalChain(expected, "status"))
       /\ StrictNotEquals(actual.status, Member(expected, "status"))
    THEN Return(MismatchResult("Status code mismatch", actual.status,
                               Member(expected, "status")))
    ELSE IF Truthy(OptionalChain(expected, "location"))
            /\ StrictNotEquals(actual.location, Member(expected, "location"))
    THEN Return(MismatchResult("Location mismatch", actual.location,
                               Member(expected, "location")))
    ELSE IF ~isRedirect(actual)
    THEN Return(BaseResult(FALSE, RedirectMessage(isNot)))
    ELSE Return(BaseResult(TRUE, RedirectMessage(isNot)))

\* toThrowRedirect whose classification test is dropped when no expected is given.
toThrowRedirect_passWithoutExpected(isNot, actual, expected) ==
    IF ~isRedirect(actual) /\ ~Nullish(expected)
    THEN Return(BaseResult(FALSE, RedirectMessage(isNot)))
    ELSE IF Truthy(OptionalChain(expected, "status"))
            /\ StrictNotEquals(actual.status, Member(expected, "status"))
    THEN Return(MismatchResult("Status code mismatch", actual.status,
                               Member(expected, "status")))
    ELSE IF Truthy(OptionalChain(expected, "location"))
            /\ StrictNotEquals(actual.location, Member(expected, "location"))
    THEN Return(MismatchResult("Location mismatch", actual.location,
                               Member(expected, "location")))
    ELSE Return(BaseResult(TRUE, RedirectMessage(isNot)))

\* toThrowRedirect with the location check before the status check.
toThrowRedirect_locationFirst(isNot, actual, expected) ==
    IF ~isRedirect(actual)
    THEN Return(BaseResult(FALSE, RedirectMessage(isNot)))
    ELSE IF Truthy(OptionalChain(expected, "location"))
            /\ StrictNotEquals(actual.location, Member(expected, "location"))
    THEN Return(MismatchResult("Location mismatch", actual.location,
                               Member(expected, "location")))
    ELSE IF Truthy(OptionalChain(expected, "status"))
            /\ StrictNotEquals(actual.status, Member(expected, "status"))
    THEN Return(MismatchResult("Status code mismatch", actual.status,
                               Member(expected, "status")))
    ELSE Return(BaseResult(TRUE, RedirectMessage(isNot)))

\* toThrowRedirect whose status check has no presence test:
\* actual.status !== expected?.status
toThrowRedirect_noPresenceTest(isNot, actual, expected) ==
    IF ~isRedirect(actual)
    THEN Return(BaseResult(FALSE, RedirectMessage(isNot)))
    ELSE IF StrictNotEquals(actual.status, OptionalChain(expected, "status"))
    THEN Return(MismatchResult("Status code mismatch", actual.status,
                               OptionalChain(expected, "status")))
    ELSE IF Truthy(OptionalChain(expected, "location"))
            /\ StrictNotEquals(actual.location, Member(expected, "location"))
    THEN Return(MismatchResult("Location mismatch", actual.location,
                               Member(expected, "location")))
    ELSE Return(BaseResult(TRUE, RedirectMessage(isNot)))

\* toThrowRedirect returning pass: !isNot when everything matches.
toThrowRedirect_passFollowsIsNot(isNot, actual, expected) ==
    IF ~isRedirect(actual)
    THEN Return(BaseResult(FALSE, RedirectMessage(isNot)))
    ELSE IF Truthy(OptionalChain(expected, "status"))
            /\ StrictNotEquals(actual.status, Member(expected, "status"))
    THEN Return(MismatchResult("Status code mismatch", actual.status,
                               Member(expected, "status")))
    ELSE IF Truthy(OptionalChain(expected, "location"))
            /\ StrictNotEquals(actual.location, Member(expected, "location"))
    THEN Return(MismatchResult("Location mismatch", actual.location,
                               Member(expected, "location")))
    ELSE Return(BaseResult(~isNot, RedirectMessage(isNot)))

\* toThrowRedirect whose status mismatch leaves the expected key out.
toThrowRedirect_unpairedDiff(isNot, actual, expected) ==
    IF ~isRedirect(actual)
    THEN Return(BaseResult(FALSE, RedirectMessage(isNot)))
    ELSE IF Truthy(OptionalChain(expected, "status"))
            /\ StrictNotEquals(actual.status, Member(expected, "status"))
    THEN Return([keys |-> {"pass", "message", "actual"}, pass |-> FALSE,
                 message |-> "Status code mismatch", actual |-> actual.status,
                 expected |-> Undefined])
    ELSE IF Truthy(OptionalChain(expected, "location"))
            /\ StrictNotEquals(actual.location, Member(expected, "location"))
    THEN Return(MismatchResult("Location mismatch", actual.location,
                               Member(expected, "location")))
    ELSE Return(BaseResult(TRUE, RedirectMessage(isNot)))

\* toThrowRedirect reading expected.status without the optional chain: a
\* TypeError when expected is undefined or null.
toThrowRedirect_plainMember(isNot, actual, expected) ==
    IF ~isRedirect(actual)
    THEN Return(BaseResult(FALSE, RedirectMessage(isNot)))
    ELSE IF Nullish(expected)
    THEN Throw("TypeError")
    ELSE IF Truthy(Member(expected, "status"))
            /\ StrictNotEquals(actual.status, Member(expected, "status"))
    THEN Return(MismatchResult("Status code mismatch", actual.status,
                               Member(expected, "status")))
    ELSE IF Truthy(Member(expected, "location"))
            /\ StrictNotEquals(actual.location, Member(expected, "location"))
    THEN Return(MismatchResult("Location mismatch", actual.location,
                               Member(expected, "location")))
    ELSE Return(BaseResult(TRUE, RedirectMessage(isNot)))

\* toThrowRedirect whose presence test is expected?.status !== undefined, so
\* that a status of 0 or a location of '' is checked like any other.
toThrowRedirect_definedPresence(isNot, actual, expected) ==
    IF ~isRedirect(actual)
    THEN Return(BaseResult(FALSE, RedirectMessage(isNot)))
    ELSE IF OptionalChain(expected, "status") # Undefined
            /\ StrictNotEquals(actual.status, Member(expected, "status"))
    THEN Return(MismatchResult("Status code mismatch", actual.status,
                               Member(expected, "status")))
    ELSE IF OptionalChain(expected, "location") # Undefined
            /\ StrictNotEquals(actual.location, Member(expected, "location"))
    THEN Return(MismatchResult("Location mismatch", actual.location,
                               Member(expected, "location")))
    ELSE Return(BaseResult(TRUE, RedirectMessage(isNot)))

toThrowRedirect(isNot, actual, expected) ==
    IF ~isRedirect(actual)
    THEN Return(BaseResult(FALSE, RedirectMessage(isNot)))
    ELSE IF Truthy(OptionalChain(expected, "status"))
            /\ StrictNotEquals(actual.status, Member(expected, "status"))
    THEN Return(MismatchResult("Status code mismatch", actual.status,
                               Member(expected, "status")))
    ELSE IF Truthy(OptionalChain(expected, "location"))
            /\ StrictNotEquals(actual.location, Member(expected, "location"))
    THEN Return(MismatchResult("Location mismatch", actual.location,
                               Member(expected, "location")))
    ELSE Return(BaseResult(TRUE, RedirectMessage(isNot)))

\* toThrowHttpError comparing expected.message with a top-level actual.message,
\* which an HttpError does not have.
toThrowHttpError_topLevelMessage(isNot, actual, expected) ==
    IF ~isHttpError(actual)
    THEN Return(BaseResult(FALSE, HttpErrorMessage(isNot)))
    ELSE IF Truthy(OptionalChain(expected, "status"))
            /\ StrictNotEquals(actual.status, Member(expected, "status"))
    THEN Return(MismatchResult("Status code mismatch", actual.status,
                               Member(expected, "status")))
    ELSE IF Truthy(OptionalChain(expected, "message"))
            /\ StrictNotEquals(Undefined, Member(expected, "message"))
    THEN Return(MismatchResult("Message mismatch", Undefined,
                               Member(expected, "message")))
    ELSE Return(BaseResult(TRUE, HttpErrorMessage(isNot)))

\* actual.body.message throws a TypeError when actual.body is not an object; the
\* access is reached only where expected?.message was truthy.
toThrowHttpError(isNot, actual, expected) ==
    IF ~isHttpError(actual)
    THEN Return(BaseResult(FALSE, HttpErrorMessage(isNot)))
    ELSE IF Truthy(OptionalChain(expected, "status"))
            /\ StrictNotEquals(actual.status, Member(expected, "status"))
    THEN Return(MismatchResult("Status code mismatch", actual.status,
                               Member(expected, "status")))
    ELSE IF Truthy(OptionalChain(expected, "message")) /\ ~actual.body.isObject
    THEN Throw("TypeError")
    ELSE IF Truthy(OptionalChain(expected, "message"))
            /\ StrictNotEquals(actual.body.message, Member(expected, "message"))
    THEN Return(MismatchResult("Message mismatch", actual.body.message,
                               Member(expected, "message")))
    ELSE Return(BaseResult(TRUE, HttpErrorMessage(isNot)))

----------------------------------------------------------------------------
(* State *)

NoCall == [matcher |-> "none", isNot |-> FALSE, actual |-> Primitive(Undefined),
           expected |-> NoExpected]

Init ==
    /\ call = NoCall
    /\ completion = NoCompletion
    /\ params = [event |-> "none", impl |-> "undefined", calls |-> << >>]
    /\ hook = "none"
    /\ promise = [state |-> "none", value |-> Primitive(Undefined)]
    /\ earlier = [call |-> NoCall, completion |-> NoCompletion]

\* An invocation of toThrowRedirect that takes isNot from the invocation before
\* it, as if the flag were kept in a variable of the module.
InvokeToThrowRedirect_staleIsNot(isNot, actual, expected) ==
    /\ call' = [matcher |-> "toThrowRedirect", isNot |-> isNot, actual |-> actual,
                expected |-> expected]
    /\ completion' = toThrowRedirect(call.isNot, actual, expected)

\* The host calls toThrowRedirect with this.isNot, actual and expected: the
\* function reads these three and writes nothing but its return value.
InvokeToThrowRedirect(isNot, actual, expected) ==
    /\ call' = [matcher |-> "toThrowRedirect", isNot |-> isNot, actual |-> actual,
                expected |-> expected]
    /\ completion' = toThrowRedirect(isNot, actual, expected)

\* The host calls toThrowHttpError with this.isNot, actual and expected.
InvokeToThrowHttpError(isNot, actual, expected) ==
    /\ call' = [matcher |-> "toThrowHttpError", isNot |-> isNot, actual |-> actual,
                expected |-> expected]
    /\ completion' = toThrowHttpError(isNot, actual, expected)

\* expect(actual).toThrowRedirect(expected), or its .not form
ExpectToThrowRedirect(isNot, actual, expected) ==
    /\ InvokeToThrowRedirect(isNot, actual, expected)
    /\ UNCHANGED <<params, hook, promise, earlier>>

\* expect(actual).toThrowHttpError(expected), or its .not form
ExpectToThrowHttpError(isNot, actual, expected) ==
    /\ InvokeToThrowHttpError(isNot, actual, expected)
    /\ UNCHANGED <<params, hook, promise, earlier>>

MatcherNext ==
    \/ \E isNot \in BOOLEAN, actual \in Actuals, expected \in Expecteds :
          ExpectToThrowRedirect(isNot, actual, expected)
    \/ \E isNot \in BOOLEAN, actual \in Actuals, expected \in Expecteds :
          ExpectToThrowHttpError(isNot, actual, expected)

MatcherSpec == Init /\ [][MatcherNext]_vars

----------------------------------------------------------------------------
(* The server hooks and the mocks they are invoked with *)

Events == {"event1", "event2"}

\* What the test made the resolve mock do when called: a bare vi.fn() returns
\* undefined; a configured one resolves to a response or rejects.
ResolveImpls == {"undefined", "response", "rejects"}

MaxCalls == 2

Settled(state, value) == [state |-> state, value |-> value]

ResolveError == PlainObject(Undefined, Undefined, Body(Str("resolve failed")))
Response == PlainObject(Num(200), Undefined, NoBody)

\* The promise resolve(event) settles to, by the mock's implementation.
ResolveOutcome(impl) ==
    CASE impl = "undefined" -> Settled("fulfilled", Primitive(Undefined))
      [] impl = "response" -> Settled("fulfilled", Response)
      [] impl = "rejects" -> Settled("rejected", ResolveError)

\* redirect(status, location) throws a Redirect; error(status, message) an HttpError.
redirect(status, location) == Redirect(status, location)
error(status, message) == HttpError(status, message)

\* The rejection reason of errorHook: what error(500, 'Server Error') throws.
ErrorHookReason == error(500, "Server Error")

\* let { event, resolve } = mockHandleParams(): a fresh event and a fresh mock
mockHandleParams(event, impl) ==
    /\ params' = [event |-> event, impl |-> impl, calls |-> << >>]
    /\ UNCHANGED <<call, completion, hook, promise, earlier>>

\* A handle that returns without calling resolve.
handle_withoutResolve ==
    /\ params.event \in Events
    /\ hook' = "handle"
    /\ promise' = Settled("fulfilled", Primitive(Undefined))
    /\ UNCHANGED <<call, completion, params, earlier>>

\* handle({ event, resolve }): return resolve(event)
handle ==
    /\ params.event \in Events
    /\ Len(params.calls) < MaxCalls
    /\ params' = [params EXCEPT !.calls = Append(@, params.event)]
    /\ hook' = "handle"
    /\ promise' = ResolveOutcome(params.impl)
    /\ UNCHANGED <<call, completion, earlier>>

\* A redirectHook that calls resolve(event) before it redirects.
redirectHook_callsResolve ==
    /\ params.event \in Events
    /\ Len(params.calls) < MaxCalls
    /\ params' = [params EXCEPT !.calls = Append(@, params.event)]
    /\ hook' = "redirectHook"
    /\ promise' = Settled("rejected", redirect(302, "/login"))
    /\ UNCHANGED <<call, completion, earlier>>

\* redirectHook({ event, resolve }): redirect(302, '/login')
redirectHook ==
    /\ params.event \in Events
    /\ hook' = "redirectHook"
    /\ promise' = Settled("rejected", redirect(302, "/login"))
    /\ UNCHANGED <<call, completion, params, earlier>>

\* errorHook({ event, resolve }): error(500, 'Server Error')
errorHook ==
    /\ params.event \in Events
    /\ hook' = "errorHook"
    /\ promise' = Settled("rejected", ErrorHookReason)
    /\ UNCHANGED <<call, completion, params, earlier>>

\* The expected arguments of the hook tests: those of the README and their
\* mismatching and falsy variants.
HookExpecteds ==
    {NoExpected, NullExpected}
    \cup {ExpectedObject(st, Undefined, Undefined) : st \in {Num(302), Num(303), Num(500), Num(0)}}
    \cup {ExpectedObject(Undefined, l, Undefined) : l \in {Str("/login"), Str("/b")}}
    \cup {ExpectedObject(Undefined, Undefined, m) : m \in {Str("Server Error"), Str("Wrong")}}
    \cup {ExpectedObject(Num(303), Str("/b"), Undefined)}

\* await expect(hook({ event, resolve })).rejects.toThrowRedirect(expected)
RejectsToThrowRedirect(isNot, expected) ==
    /\ promise.state = "rejected"
    /\ InvokeToThrowRedirect(isNot, promise.value, expected)
    /\ UNCHANGED <<params, hook, promise, earlier>>

\* await expect(hook({ event, resolve })).rejects.toThrowHttpError(expected)
RejectsToThrowHttpError(isNot, expected) ==
    /\ promise.state = "rejected"
    /\ InvokeToThrowHttpError(isNot, promise.value, expected)
    /\ UNCHANGED <<params, hook, promise, earlier>>

Next ==
    \/ \E event \in Events, impl \in ResolveImpls : mockHandleParams(event, impl)
    \/ handle
    \/ redirectHook
    \/ errorHook
    \/ \E isNot \in BOOLEAN, expected \in HookExpecteds : RejectsToThrowRedirect(isNot, expected)
    \/ \E isNot \in BOOLEAN, expected \in HookExpecteds : RejectsToThrowHttpError(isNot, expected)

Spec == Init /\ [][Next]_vars

----------------------------------------------------------------------------
(* Vocabulary of the properties *)

CallMade == call.matcher \in {"toThrowRedirect", "toThrowHttpError"}
Returned == completion.type = "return"
Result == completion.value

\* The actual value is of the signal variant the invoked matcher looks for.
Classified ==
    \/ call.matcher = "toThrowRedirect" /\ call.actual.cls = "Redirect"
    \/ call.matcher = "toThrowHttpError" /\ call.actual.cls = "HttpError"

\* The text of the base message, spelled out for each matcher and polarity.
BaseMessageText ==
    CASE call.matcher = "toThrowRedirect" /\ call.isNot -> "Expected a redirect to not be thrown"
      [] call.matcher = "toThrowRedirect" /\ ~call.isNot -> "Expected a redirect to be thrown"
      [] call.matcher = "toThrowHttpError" /\ call.isNot -> "Expected an HTTP error to not be thrown"
      [] call.matcher = "toThrowHttpError" /\ ~call.isNot -> "Expected an HTTP error to be thrown"
      [] OTHER -> "none"

NoDiffKeys == "actual" \notin Result.keys /\ "expected" \notin Result.keys

\* The signal's second field and the expected object's: location for a redirect,
\* body.message for an HTTP error.
SecondKey == IF call.matcher = "toThrowRedirect" THEN "location" ELSE "message"
SecondMessage ==
    IF call.matcher = "toThrowRedirect" THEN "Location mismatch" ELSE "Message mismatch"
ActualSecond ==
    IF call.matcher = "toThrowRedirect" THEN call.actual.location
    ELSE call.actual.body.message
ExpectedIsObject == call.expected.t = "object"
ExpectedStatus == call.expected.status
ExpectedSecond ==
    IF call.matcher = "toThrowRedirect" THEN call.expected.location
    ELSE call.expected.message

StatusCheckFails ==
    ExpectedIsObject /\ Truthy(ExpectedStatus) /\ ExpectedStatus # call.actual.status
SecondCheckFails ==
    ExpectedIsObject /\ Truthy(ExpectedSecond) /\ ExpectedSecond # ActualSecond

IsStatusMismatch(actual, expected) ==
    /\ Returned
    /\ Result.pass = FALSE
    /\ Result.message = "Status code mismatch"
    /\ Result.keys = {"pass", "message", "actual", "expected"}
    /\ Result.actual = actual
    /\ Result.expected = expected

IsSecondMismatch(actual, expected) ==
    /\ Returned
    /\ Result.pass = FALSE
    /\ Result.message = SecondMessage
    /\ Result.keys = {"pass", "message", "actual", "expected"}
    /\ Result.actual = actual
    /\ Result.expected = expected

----------------------------------------------------------------------------
(* Properties of the matchers, under MatcherSpec *)

\* C1: for either matcher, when the classification predicate is false on the
\* actual value (a non-object value included), whatever the expected argument,
\* the result has pass = false, the polarity-aware base message, and neither an
\* actual nor an expected key.
C1_ClassificationPrecedesFieldChecks ==
    (CallMade /\ ~Classified) =>
        /\ Returned
        /\ Result.pass = FALSE
        /\ Result.message = BaseMessageText
        /\ NoDiffKeys

\* A plain object with a redirect's fields, which isRedirect rejects, checked
\* against an expected status and location that both differ from its own.
C1_Witness ==
    /\ call.matcher = "toThrowRedirect"
    /\ call.actual = PlainObject(Num(302), Str("/login"), NoBody)
    /\ call.expected = ExpectedObject(Num(303), Str("/b"), Undefined)
    /\ Returned /\ Result.pass = FALSE /\ NoDiffKeys

\* C2: for either matcher invoked with no expected argument, pass is true if and
\* only if the actual value is of the matcher's signal variant, whatever the
\* signal's fields; the passing result has no actual/expected keys.
C2_NoExpectedPassIffClassified ==
    (CallMade /\ call.expected = NoExpected) =>
        /\ Returned
        /\ Result.pass = Classified
        /\ Result.pass => NoDiffKeys

C2_Witness ==
    /\ call.matcher = "toThrowHttpError"
    /\ call.expected = NoExpected
    /\ call.actual = HttpError(404, "Not Found")
    /\ Returned /\ Result.pass = TRUE

\* C3 as stated: every supplied expected.status that differs from the signal's
\* status gives the status mismatch result.
C3_AnySuppliedStatusMismatches ==
    (CallMade /\ Classified /\ ExpectedIsObject /\ ExpectedStatus # Undefined
     /\ ExpectedStatus # call.actual.status) =>
        IsStatusMismatch(call.actual.status, ExpectedStatus)

\* C3, amended: for a classified signal and an expected object whose status is
\* truthy (a non-zero number, a non-empty string) and strictly differs from the
\* signal's status, the result is pass = false, 'Status code mismatch',
\* actual = actual.status, expected = expected.status.
C3_TruthyStatusMismatches ==
    (CallMade /\ Classified /\ ExpectedIsObject /\ Truthy(ExpectedStatus)
     /\ ExpectedStatus # call.actual.status) =>
        IsStatusMismatch(call.actual.status, ExpectedStatus)

\* A status of the right number but the wrong type: 302 !== '302'.
C3_Witness ==
    /\ call.matcher = "toThrowRedirect"
    /\ call.actual = Redirect(302, "/login")
    /\ call.expected.status = Str("302")
    /\ IsStatusMismatch(Num(302), Str("302"))

\* C4: the status check runs before the location/message check and the first
\* mismatch ends the evaluation: with a non-zero expected status and a non-empty
\* expected location/message that both differ, the result is the status mismatch
\* alone; a location/message mismatch is returned only when the status check
\* did not fail.
C4_FirstMismatchShortCircuits ==
    (CallMade /\ Classified) =>
        /\ (StatusCheckFails /\ SecondCheckFails) =>
               IsStatusMismatch(call.actual.status, ExpectedStatus)
        /\ (Returned /\ Result.message = SecondMessage) => ~StatusCheckFails

C4_Witness ==
    /\ call.matcher = "toThrowRedirect"
    /\ call.actual = Redirect(302, "/a")
    /\ call.expected = ExpectedObject(Num(303), Str("/b"), Undefined)
    /\ IsStatusMismatch(Num(302), Num(303))

\* C5 as stated: every supplied expected.message that differs from body.message
\* gives the message mismatch result.
C5_AnySuppliedMessageCompared ==
    (call.matcher = "toThrowHttpError" /\ Classified /\ ~StatusCheckFails
     /\ ExpectedIsObject /\ call.expected.message # Undefined) =>
        IF call.expected.message = call.actual.body.message
        THEN Returned /\ Result.pass = TRUE
        ELSE IsSecondMismatch(call.actual.body.message, call.expected.message)

\* C5, amended: toThrowHttpError compares a truthy (non-empty) expected.message
\* with the signal's nested body.message: when the status check does not fail,
\* an equal message passes and a different one gives pass = false, 'Message
\* mismatch', actual = actual.body.message, expected = expected.message; on the
\* rejection of errorHook, 'Server Error' passes and 'Wrong' fails with actual
\* 'Server Error' and expected 'Wrong'.
C5_TruthyMessageComparedWithBody ==
    /\ (call.matcher = "toThrowHttpError" /\ Classified /\ ~StatusCheckFails
        /\ ExpectedIsObject /\ Truthy(call.expected.message)) =>
           IF call.expected.message = call.actual.body.message
           THEN Returned /\ Result.pass = TRUE
           ELSE IsSecondMismatch(call.actual.body.message, call.expected.message)
    /\ (call.matcher = "toThrowHttpError" /\ call.actual = ErrorHookReason
        /\ call.expected = ExpectedObject(Undefined, Undefined, Str("Server Error"))) =>
           Returned /\ Result.pass = TRUE
    /\ (call.matcher = "toThrowHttpError" /\ call.actual = ErrorHookReason
        /\ call.expected = ExpectedObject(Undefined, Undefined, Str("Wrong"))) =>
           IsSecondMismatch(Str("Server Error"), Str("Wrong"))

C5_Witness ==
    /\ call.matcher = "toThrowHttpError"
    /\ call.actual = ErrorHookReason
    /\ call.expected = ExpectedObject(Undefined, Undefined, Str("Wrong"))
    /\ Returned /\ Result.pass = FALSE /\ Result.actual = Str("Server Error")

\* The signals of the variant the invoked matcher looks for.
SignalsOfMatcher == IF call.matcher = "toThrowRedirect" THEN Redirects ELSE HttpErrors

SecondOf(signal) ==
    IF call.matcher = "toThrowRedirect" THEN signal.location ELSE signal.body.message

\* The two signals differ, and only in fields that expected does not carry.
DiffersOnlyInAbsentFields(a, b) ==
    /\ a # b
    /\ a.status # b.status => OptionalChain(call.expected, "status") = Undefined
    /\ SecondOf(a) # SecondOf(b) => OptionalChain(call.expected, SecondKey) = Undefined

MatcherOf(name, isNot, actual, expected) ==
    IF name = "toThrowRedirect" THEN toThrowRedirect(isNot, actual, expected)
    ELSE toThrowHttpError(isNot, actual, expected)

\* C6: a signal field whose expected counterpart is absent does not influence
\* the outcome: any other signal of the same variant that differs only in such
\* fields gets the same result; and a redirect to '/login' checked against
\* {location: '/login'} passes for every status.
C6_AbsentFieldsDoNotInfluence ==
    (CallMade /\ Classified) =>
        /\ \A other \in SignalsOfMatcher :
               DiffersOnlyInAbsentFields(call.actual, other) =>
                   MatcherOf(call.matcher, call.isNot, other, call.expected) = completion
        /\ (call.matcher = "toThrowRedirect" /\ call.actual.location = Str("/login")
            /\ call.expected = ExpectedObject(Undefined, Str("/login"), Undefined)) =>
               Returned /\ Result.pass = TRUE

C6_Witness ==
    /\ call.matcher = "toThrowRedirect"
    /\ call.actual = Redirect(303, "/login")
    /\ call.expected = ExpectedObject(Undefined, Str("/login"), Undefined)
    /\ DiffersOnlyInAbsentFields(call.actual, Redirect(302, "/login"))
    /\ Returned /\ Result.pass = TRUE

\* C7: isNot changes the text of the base message and nothing else: the same
\* actual and expected under the opposite isNot give the same pass and the same
\* actual/expected keys and values, and the base message (on classification
\* failure and on pass) reads '... to not be thrown' exactly when isNot is true.
C7_IsNotChangesOnlyTheText ==
    CallMade =>
        LET negated == MatcherOf(call.matcher, ~call.isNot, call.actual, call.expected)
        IN /\ Returned /\ negated.type = "return"
           /\ negated.value.pass = Result.pass
           /\ negated.value.keys = Result.keys
           /\ negated.value.actual = Result.actual
           /\ negated.value.expected = Result.expected
           /\ NoDiffKeys => Result.message = BaseMessageText

C7_Witness ==
    /\ call.matcher = "toThrowHttpError"
    /\ call.isNot
    /\ call.actual = Redirect(302, "/login")
    /\ Returned /\ Result.pass = FALSE
    /\ Result.message = "Expected an HTTP error to not be thrown"

\* C8: in every result the actual and expected keys are both present or both
\* absent; they are present exactly on a field-level mismatch (pass = false with
\* one of the three mismatch messages), where they hold the signal's field and
\* the expected field, which differ; a passing result never carries them.
C8_MatchResultProtocol ==
    (CallMade /\ Returned) =>
        LET isStatus == Result.message = "Status code mismatch"
            isSecond == Result.message = SecondMessage
            present == "actual" \in Result.keys
        IN /\ ("actual" \in Result.keys) = ("expected" \in Result.keys)
           /\ {"pass", "message"} \subseteq Result.keys
           /\ present = (Result.pass = FALSE /\ (isStatus \/ isSecond))
           /\ (present /\ isStatus) =>
                  /\ Classified
                  /\ Result.actual = call.actual.status
                  /\ Result.expected = ExpectedStatus
           /\ (present /\ isSecond) =>
                  /\ Classified
                  /\ Result.actual = ActualSecond
                  /\ Result.expected = ExpectedSecond
           /\ present =>
                  /\ Result.actual # Result.expected
                  /\ Result.actual.t \in {"number", "string"}
                  /\ Result.expected.t \in {"number", "string"}
           /\ Result.pass => ~present

C8_Witness ==
    /\ call.matcher = "toThrowRedirect"
    /\ call.actual = Redirect(302, "/login")
    /\ call.expected = ExpectedObject(Num(302), Str("/b"), Undefined)
    /\ IsSecondMismatch(Str("/login"), Str("/b"))

\* C10: no invocation of either matcher throws: for every actual value and every
\* expected argument (undefined, null, empty, partial, with unsupported keys) it
\* returns a MatchResult with a boolean pass and a message, and whenever the
\* value is not the signal or a checked field differs, that result has
\* pass = false.
C10_NeverThrows ==
    CallMade =>
        /\ Returned
        /\ Result.pass \in BOOLEAN
        /\ {"pass", "message"} \subseteq Result.keys
        /\ (~Classified \/ StatusCheckFails \/ SecondCheckFails) => Result.pass = FALSE

\* A classified signal checked against null, where a plain expected.status
\* would throw.
C10_Witness ==
    /\ call.matcher = "toThrowRedirect"
    /\ call.actual = Redirect(302, "/login")
    /\ call.expected = NullExpected
    /\ Returned /\ Result.pass = TRUE

----------------------------------------------------------------------------
(* Properties of the hooks, under Spec *)

\* The latest matcher invocation was made on the rejection reason of redirectHook.
OnRedirectHookRejection ==
    /\ hook = "redirectHook"
    /\ call.matcher = "toThrowRedirect"
    /\ promise.state = "rejected"
    /\ call.actual = promise.value

\* C9: every invocation of redirectHook rejects with a redirect of status 302
\* and location '/login' and leaves the resolve mock uncalled; on that rejection
\* reason toThrowRedirect passes with no argument, with {status: 302} and with
\* {location: '/login'}, and fails with {status: 303}, actual = 302 and
\* expected = 303.
C9_RedirectHookScenario ==
    /\ [](hook = "redirectHook" =>
            /\ promise.state = "rejected"
            /\ promise.value.cls = "Redirect"
            /\ promise.value.status = Num(302)
            /\ promise.value.location = Str("/login"))
    /\ [](OnRedirectHookRejection =>
            /\ call.expected = NoExpected => Returned /\ Result.pass = TRUE
            /\ call.expected = ExpectedObject(Num(302), Undefined, Undefined) =>
                   Returned /\ Result.pass = TRUE
            /\ call.expected = ExpectedObject(Undefined, Str("/login"), Undefined) =>
                   Returned /\ Result.pass = TRUE
            /\ call.expected = ExpectedObject(Num(303), Undefined, Undefined) =>
                   IsStatusMismatch(Num(302), Num(303)))
    /\ [][(hook # "redirectHook" /\ hook' = "redirectHook") => params' = params]_vars

C9_Witness ==
    /\ OnRedirectHookRejection
    /\ params.calls = << >>
    /\ call.expected = ExpectedObject(Num(303), Undefined, Undefined)
    /\ IsStatusMismatch(Num(302), Num(303))

----------------------------------------------------------------------------
(* Presence of an expected field, under MatcherSpec *)

Falsy(v) == v \in {Num(0), Str("")}

\* The expected object with one of its fields removed.
WithoutStatus(expected) == [expected EXCEPT !.status = Undefined]
WithoutSecond(expected) ==
    IF call.matcher = "toThrowRedirect" THEN [expected EXCEPT !.location = Undefined]
    ELSE [expected EXCEPT !.message = Undefined]

\* C11: presence of an expected field is decided by truthiness: for a classified
\* signal, a falsy expected field (status 0, location '', message '') is skipped,
\* and the result is the one obtained with that field removed from expected,
\* also when the signal's field differs from the falsy value.
C11_FalsyFieldIsSkipped ==
    (CallMade /\ Classified /\ ExpectedIsObject) =>
        /\ Falsy(ExpectedStatus) =>
               /\ completion = MatcherOf(call.matcher, call.isNot, call.actual,
                                         WithoutStatus(call.expected))
               /\ Returned /\ Result.message # "Status code mismatch"
        /\ Falsy(ExpectedSecond) =>
               /\ completion = MatcherOf(call.matcher, call.isNot, call.actual,
                                         WithoutSecond(call.expected))
               /\ Returned /\ Result.message # SecondMessage

\* A redirect of status 302 checked against a status of 0 and a location of '',
\* both of which differ from its own: the call passes.
C11_Witness ==
    /\ call.matcher = "toThrowRedirect"
    /\ call.actual = Redirect(302, "/login")
    /\ call.expected = ExpectedObject(Num(0), Str(""), Undefined)
    /\ Returned /\ Result.pass = TRUE /\ NoDiffKeys

----------------------------------------------------------------------------
(* Sequences of matcher invocations *)

\* The expected arguments of the assertions that follow one another in a test.
SequenceExpecteds ==
    {NoExpected,
     ExpectedObject(Num(303), Undefined, Undefined),
     ExpectedObject(Undefined, Str("/login"), Undefined),
     ExpectedObject(Undefined, Undefined, Str("Wrong"))}

\* The invocation this one replaces as the latest is kept in the history, or the
\* history is left as it is.
Remember(keep) ==
    earlier' = IF keep THEN earlier ELSE [call |-> call, completion |-> completion]

\* One more expect(...).rejects.toThrowRedirect(expected) on the settled promise
SequencedToThrowRedirect(isNot, expected, keep) ==
    /\ promise.state = "rejected"
    /\ InvokeToThrowRedirect(isNot, promise.value, expected)
    /\ Remember(keep)
    /\ UNCHANGED <<params, hook, promise>>

\* One more expect(...).rejects.toThrowHttpError(expected) on the settled promise
SequencedToThrowHttpError(isNot, expected, keep) ==
    /\ promise.state = "rejected"
    /\ InvokeToThrowHttpError(isNot, promise.value, expected)
    /\ Remember(keep)
    /\ UNCHANGED <<params, hook, promise>>

SequenceNext ==
    \/ \E event \in Events, impl \in ResolveImpls : mockHandleParams(event, impl)
    \/ redirectHook
    \/ errorHook
    \/ \E isNot \in BOOLEAN, expected \in SequenceExpecteds, keep \in BOOLEAN :
          SequencedToThrowRedirect(isNot, expected, keep)
    \/ \E isNot \in BOOLEAN, expected \in SequenceExpecteds, keep \in BOOLEAN :
          SequencedToThrowHttpError(isNot, expected, keep)

SequenceSpec == Init /\ [][SequenceNext]_vars

\* The step is a matcher invocation: it replaces the latest invocation or its
\* completion.
InvocationStep == call' # call \/ completion' # completion

----------------------------------------------------------------------------
(* The default hook, under Spec *)

\* The step is an invocation of handle: the first after another hook, or one
\* in which the resolve mock records a call.
HandleStep ==
    \/ hook # "handle" /\ hook' = "handle"
    \/ Len(params'.calls) > Len(params.calls)

\* C13: handle calls resolve exactly once, with the event it was given, and
\* settles as that call does: fulfilled with what resolve returns (undefined for
\* a bare mock), rejected with resolve's reason when resolve rejects; neither
\* outcome is a redirect or an HTTP error signal.
C13_HandleResolvesOnce ==
    /\ [][HandleStep =>
            /\ hook' = "handle"
            /\ params'.event = params.event
            /\ params'.impl = params.impl
            /\ params'.calls = params.calls \o <<params.event>>
            /\ params.impl = "undefined" =>
                   promise' = [state |-> "fulfilled", value |-> Primitive(Undefined)]
            /\ params.impl = "response" =>
                   promise' = [state |-> "fulfilled", value |-> Response]
            /\ params.impl = "rejects" =>
                   promise' = [state |-> "rejected", value |-> ResolveError]]_vars
    /\ [](hook = "handle" =>
            /\ promise.state \in {"fulfilled", "rejected"}
            /\ promise.value.cls \notin {"Redirect", "HttpError"}
            /\ Len(params.calls) <= MaxCalls)

\* handle invoked once with a resolve mock that rejects: one recorded call, with
\* the event of the params, and a promise rejected with resolve's reason.
C13_Witness ==
    /\ hook = "handle"
    /\ params.impl = "rejects"
    /\ params.calls = <<params.event>>
    /\ promise = [state |-> "rejected", value |-> ResolveError]

====
